---- MODULE Spec2Model ----
(***************************************************************************)
(* Model of src/helpers.js of the Fortuneo bank connector: the transaction *)
(* classification walk over classification.json with its module-level      *)
(* accumulator, the amount normaliser, the account type resolver and the   *)
(* request error handler.                                                  *)
(***************************************************************************)
EXTENDS Integers, Sequences, FiniteSets, TLC

VARIABLES
  defaultMedataOperation,  \* the module-level object of helpers.js:9-13
  call,                    \* the last classification call and what it did
  merge,                   \* the last _readSpecificMetaData call on its own
  amountCall,              \* the last normalizeAmount call
  cssCall,                 \* the last getAccountTypeFromCSS call
  errCall,                 \* the last handleRequestErrors call
  logged                   \* what log('error', err) has been handed so far

vars == <<defaultMedataOperation, call, merge, amountCall, cssCall, errCall, logged>>

(***************************************************************************)
(* Bounds of the model.                                                    *)
(***************************************************************************)
MaxWords == 3     \* longest token sequence handed to the classification
MaxAmountLen == 4 \* longest amount string, in characters
MaxCssLen == 3    \* longest class string, in pieces
MaxLog == 2       \* longest log kept

(***************************************************************************)
(* JavaScript values.  Numbers and strings are tagged, so that 0, '' and   *)
(* '0' stay three different values; undefined is a value of its own.       *)
(***************************************************************************)
Num(n) == [num |-> n]
Str(s) == [str |-> s]
Undefined == [undefined |-> TRUE]

\* ToBoolean on the values the model holds: undefined, 0 and '' are falsy,
\* every object, non-zero number and non-empty string is truthy.
Truthy(v) == v \notin {Undefined, Num(0), Str("")}

\* obj[key] for an object held as a function from its own keys.
Get(obj, key) == IF key \in DOMAIN obj THEN obj[key] ELSE Undefined

\* Thrown errors and returned values of a call.
Return(v) == [how |-> "return", value |-> v]
Throw(e) == [how |-> "throw", error |-> e]

(***************************************************************************)
(* helpers.js:9-13                                                         *)
(***************************************************************************)
InitialMetadata ==
  ("_id" :> Str("0")) @@ ("_proba" :> Num(0)) @@ ("_type" :> Str("none"))

MetadataKeys == {"_id", "_proba", "_type"}

(***************************************************************************)
(* classification.json, required at helpers.js:5: the rule tree, static    *)
(* data read by _classification.  This tree has the shape section 3 of the *)
(* specification gives (own fields, _credit and _debit sub-records,        *)
(* children keyed by uppercase tokens) and holds the examples of section   *)
(* 8: a VIR root with a _credit override, a CARTE root with a RESTAURANT   *)
(* child.                                                                  *)
(***************************************************************************)
classification ==
  ("VIR" :>
     (("_id" :> Str("5"))
      @@ ("_credit" :> ("_proba" :> Num(90)))
      @@ ("SALAIRE" :>
            (("_type" :> Str("income"))
             @@ ("_credit" :> ("_id" :> Str("7")))
             @@ ("_debit" :> (("_id" :> Str("8")) @@ ("_proba" :> Num(20)))))))
  )
  @@
  ("CARTE" :>
     (("_id" :> Str("3")) @@ ("_proba" :> Num(50))
      @@ ("_debit" :> (("_proba" :> Num(60)) @@ ("_type" :> Str("expense"))))
      @@ ("RESTAURANT" :>
            (("_id" :> Str("4"))
             @@ ("_credit" :> ("_type" :> Str("refund"))))))
  )

(***************************************************************************)
(* Tokens of transaction labels and String.prototype.toUpperCase on them.  *)
(***************************************************************************)
Tokens == {"CARTE", "carte", "1234", "RESTAURANT", "VIR", "SALAIRE"}

toUpperCase(w) ==
  CASE w = "carte" -> "CARTE"
    [] OTHER -> w

WordSeqs == UNION {[1..n -> Tokens] : n \in 1..MaxWords}

(***************************************************************************)
(* helpers.js:181-185  _readDefaultMetaData                                *)
(***************************************************************************)
_readDefaultMetaData(treeMetadata, metadata) ==
  [key \in DOMAIN metadata |->
     IF Truthy(Get(treeMetadata, key)) THEN treeMetadata[key] ELSE metadata[key]]

(***************************************************************************)
(* helpers.js:187-194  _readSpecificMetaData                               *)
(***************************************************************************)
_readSpecificMetaData(treeMetadata, typeOperation, metadata) ==
  LET own == _readDefaultMetaData(treeMetadata, metadata)
  IN IF Truthy(Get(treeMetadata, typeOperation))
       THEN _readDefaultMetaData(treeMetadata[typeOperation], own)
       ELSE own

(***************************************************************************)
(* helpers.js:165  the index of the first token looked up as a child       *)
(* (0-based, as in the code).                                              *)
(***************************************************************************)
StartIndexNoSkip(words) == 1

StartIndex(words) == IF words[1] = "CARTE" THEN 2 ELSE 1

(***************************************************************************)
(* helpers.js:172-174  what the walk returns when a token has no child.    *)
(***************************************************************************)
MissReturnNothing(metadata) == Undefined

MissReturn(metadata) == metadata

(***************************************************************************)
(* helpers.js:169-179  the loop over words.slice(index) and the end of the *)
(* function, which is reached without a return statement.  i is the        *)
(* 0-based index of the next token; path holds the keys of the nodes whose *)
(* metadata was read, from the root to treeActive; lookups lists the child *)
(* lookups made.                                                           *)
(***************************************************************************)
RECURSIVE Walk(_, _, _, _, _, _, _)
Walk(words, i, treeActive, metadata, typeOperation, lookups, path) ==
  IF i >= Len(words)
    THEN [result |-> Undefined, metadata |-> metadata, lookups |-> lookups,
          path |-> path, end |-> "exhausted"]
    ELSE LET key == toUpperCase(words[i + 1])
             tree == Get(treeActive, key)
             looked == Append(lookups, [index |-> i, parent |-> path, key |-> key])
         IN IF ~Truthy(tree)
              THEN [result |-> MissReturn(metadata), metadata |-> metadata,
                    lookups |-> looked, path |-> path, end |-> "miss"]
              ELSE Walk(words, i + 1, tree,
                        _readSpecificMetaData(tree, typeOperation, metadata),
                        typeOperation, looked, Append(path, key))

(***************************************************************************)
(* helpers.js:159-179  _classification, with fnReadMetadata the closure of *)
(* helpers.js:122-124 or 135-137 over typeOperation.                       *)
(***************************************************************************)
_classification(words, metadata, typeOperation) ==
  LET treeActive == Get(classification, toUpperCase(words[1]))
  IN IF ~Truthy(treeActive)
       THEN [result |-> metadata, metadata |-> metadata, lookups |-> <<>>,
             path |-> <<>>, end |-> "noroot"]
       ELSE Walk(words, StartIndex(words), treeActive,
                 _readSpecificMetaData(treeActive, typeOperation, metadata),
                 typeOperation, <<>>, <<toUpperCase(words[1])>>)

NoCall == [fn |-> "none"]

\* One classification call, made once the caller is done with the result of
\* the call before (the connector is single-threaded and the functions are
\* synchronous).  The accumulator handed to _classification is the
\* module-level object itself, so what the walk writes stays in it.
Classify(fn, typeOperation, words) ==
  LET r == _classification(words, defaultMedataOperation, typeOperation)
  IN /\ call = NoCall
     /\ call' = [fn |-> fn, typeOperation |-> typeOperation, words |-> words,
                 entry |-> defaultMedataOperation, result |-> r.result,
                 lookups |-> r.lookups, path |-> r.path, end |-> r.end]
     /\ defaultMedataOperation' = r.metadata

(***************************************************************************)
(* helpers.js:121-125                                                      *)
(***************************************************************************)
findMetadataForCreditOperation ==
  /\ \E words \in WordSeqs : Classify("credit", "_credit", words)
  /\ UNCHANGED <<merge, amountCall, cssCall, errCall, logged>>

(***************************************************************************)
(* helpers.js:134-138                                                      *)
(***************************************************************************)
findMetadataForDebitOperation ==
  /\ \E words \in WordSeqs : Classify("debit", "_debit", words)
  /\ UNCHANGED <<merge, amountCall, cssCall, errCall, logged>>

\* The caller is done with the value a classification call returned.
DiscardMetadata ==
  /\ call # NoCall
  /\ call' = NoCall
  /\ UNCHANGED <<defaultMedataOperation, merge, amountCall, cssCall, errCall, logged>>

(***************************************************************************)
(* _readSpecificMetaData on its own: one node, one polarity, one           *)
(* accumulator.  The nodes are all those whose own fields and sub-record   *)
(* for the polarity define any of the three fields, with a truthy or a     *)
(* falsy value.                                                            *)
(***************************************************************************)
FieldValues(key) ==
  CASE key = "_id" -> {Str("9"), Str("")}
    [] key = "_proba" -> {Num(70), Num(0)}
    [] key = "_type" -> {Str("transfer"), Str("")}

FieldRecords ==
  UNION {{f \in [D -> UNION {FieldValues(k) : k \in MetadataKeys}] :
            \A k \in D : f[k] \in FieldValues(k)} : D \in SUBSET MetadataKeys}

OtherSubRecord == ("_id" :> Str("6")) @@ ("_proba" :> Num(30)) @@ ("_type" :> Str("other"))

Accumulators ==
  {InitialMetadata,
   ("_id" :> Str("5")) @@ ("_proba" :> Num(90)) @@ ("_type" :> Str("income"))}

readSpecificMetaDataCall ==
  /\ merge = NoCall
  /\ \E own \in FieldRecords, sub \in FieldRecords, hasSub \in BOOLEAN, hasOther \in BOOLEAN,
        typeOperation \in {"_credit", "_debit"}, metadata \in Accumulators :
       LET other == IF typeOperation = "_credit" THEN "_debit" ELSE "_credit"
           node == own @@ (IF hasSub THEN typeOperation :> sub ELSE <<>>)
                       @@ (IF hasOther THEN other :> OtherSubRecord ELSE <<>>)
       IN /\ hasSub \/ sub = <<>>
          /\ merge' = [fn |-> "_readSpecificMetaData", node |-> node,
                       typeOperation |-> typeOperation, before |-> metadata,
                       after |-> _readSpecificMetaData(node, typeOperation, metadata)]
  /\ UNCHANGED <<defaultMedataOperation, call, amountCall, cssCall, errCall, logged>>

DiscardMerge ==
  /\ merge # NoCall
  /\ merge' = NoCall
  /\ UNCHANGED <<defaultMedataOperation, call, amountCall, cssCall, errCall, logged>>

(***************************************************************************)
(* Strings of normalizeAmount, held as sequences of characters.            *)
(***************************************************************************)
AmountChars == {"1", "2", ",", ".", " ", "a"}

AmountStrings == UNION {[1..n -> AmountChars] : n \in 0..MaxAmountLen}

\* The characters the class \s matches.
IsWhiteSpace(c) == c \in {" ", "\t", "\n", "\r"}

IsDigit(c) == c \in {"0", "1", "2", "3", "4", "5", "6", "7", "8", "9"}

\* helpers.js:94  the literal /\s/: no flags.
WhiteSpaceRegExp == [source |-> "\\s", flags |-> {}]

RECURSIVE RemoveWhiteSpace(_)
RemoveWhiteSpace(str) ==
  IF str = <<>> THEN <<>>
  ELSE IF IsWhiteSpace(Head(str)) THEN RemoveWhiteSpace(Tail(str))
  ELSE <<Head(str)>> \o RemoveWhiteSpace(Tail(str))

\* String.prototype.replaceAll with a regular expression matching \s and the
\* replacement '': a TypeError when the expression has no g flag
\* (ECMAScript, String.prototype.replaceAll, step 2.b).
replaceAll(str, searchValue, replaceValue) ==
  IF "g" \notin searchValue.flags
    THEN Throw("TypeError")
    ELSE Return(RemoveWhiteSpace(str))

\* String.prototype.replace with a string pattern: the first occurrence only.
RECURSIVE replace(_, _, _)
replace(str, pattern, replacement) ==
  IF str = <<>> THEN <<>>
  ELSE IF Head(str) = pattern THEN <<replacement>> \o Tail(str)
  ELSE <<Head(str)>> \o replace(Tail(str), pattern, replacement)

RECURSIVE trimStart(_)
trimStart(str) ==
  IF str # <<>> /\ IsWhiteSpace(Head(str)) THEN trimStart(Tail(str)) ELSE str

RECURSIVE trimEnd(_)
trimEnd(str) ==
  IF str # <<>> /\ IsWhiteSpace(str[Len(str)])
    THEN trimEnd(SubSeq(str, 1, Len(str) - 1))
    ELSE str

trim(str) == trimEnd(trimStart(str))

\* str is digits, digits '.' digits, digits '.' or '.' digits.
IsDecimalLiteral(str) ==
  /\ \E j \in 1..Len(str) : IsDigit(str[j])
  /\ \A j \in 1..Len(str) : IsDigit(str[j]) \/ str[j] = "."
  /\ Cardinality({j \in 1..Len(str) : str[j] = "."}) <= 1

NaN == [nan |-> TRUE]

\* parseFloat: the number the longest prefix of the trimmed string that is a
\* decimal literal denotes (held as that literal), NaN when there is none.
parseFloat(str) ==
  LET t == trimStart(str)
      lens == {n \in 1..Len(t) : IsDecimalLiteral(SubSeq(t, 1, n))}
  IN IF lens = {} THEN NaN
     ELSE [literal |-> SubSeq(t, 1, CHOOSE n \in lens : \A m \in lens : m <= n)]

(***************************************************************************)
(* helpers.js:91-98  normalizeAmount                                       *)
(***************************************************************************)
normalizeAmount(amount) ==
  LET stripped == replaceAll(amount, WhiteSpaceRegExp, <<>>)
  IN IF stripped.how = "throw"
       THEN stripped
       ELSE Return(parseFloat(trim(replace(stripped.value, ",", "."))))

normalizeAmountCall ==
  /\ amountCall = NoCall
  /\ \E amount \in AmountStrings :
       amountCall' = [fn |-> "normalizeAmount", amount |-> amount,
                      outcome |-> normalizeAmount(amount)]
  /\ UNCHANGED <<defaultMedataOperation, call, merge, cssCall, errCall, logged>>

DiscardAmount ==
  /\ amountCall # NoCall
  /\ amountCall' = NoCall
  /\ UNCHANGED <<defaultMedataOperation, call, merge, cssCall, errCall, logged>>

(***************************************************************************)
(* helpers.js:15-61  AccountType (scrape4Balance.opts.parse is             *)
(* normalizeAmount in every recipe).                                       *)
(***************************************************************************)
Recipe(sel, optsSel) == [sel |-> sel, opts |-> [sel |-> optsSel, parse |-> "normalizeAmount"]]

AccountType ==
  [UNKNOWN |-> [id |-> 0, type |-> "Unknown", scrape4Balance |-> "null"],
   CHECKINGS |-> [id |-> 1, type |-> "Checkings",
                  scrape4Balance |-> Recipe("#tableauConsultationHisto", "td>strong")],
   CREDITCARD |-> [id |-> 2, type |-> "CreditCard",
                   scrape4Balance |-> Recipe("#tableauConsultationHisto", "td>a>strong")],
   SAVINGS |-> [id |-> 3, type |-> "Savings",
                scrape4Balance |-> Recipe("div.synthese_livret_cat a",
                                          "p.synthese_data_line_right_text")],
   MARKET |-> [id |-> 4, type |-> "Market",
               scrape4Balance |-> Recipe("#valorisation_compte>table>tbody>tr", "td.gras")],
   LIFEINSURANCE |-> [id |-> 5, type |-> "LifeInsurance",
                      scrape4Balance |-> Recipe("div.synthese_vie>div>div.colonne_gauche>div>p>span",
                                                "strong")]]

(***************************************************************************)
(* helpers.js:63-72  AbbrToAccountType, an object literal: besides its own *)
(* keys it answers to the names it inherits from Object.prototype.         *)
(***************************************************************************)
AbbrToAccountType ==
  [cco |-> AccountType.CHECKINGS,
   esp |-> AccountType.CHECKINGS,
   liv_a |-> AccountType.SAVINGS,
   liv_d |-> AccountType.SAVINGS,
   liv_p |-> AccountType.SAVINGS,
   ord |-> AccountType.MARKET,
   pea |-> AccountType.MARKET,
   vie |-> AccountType.LIFEINSURANCE]

ObjectPrototypeKeys ==
  {"constructor", "toString", "toLocaleString", "valueOf", "hasOwnProperty",
   "isPrototypeOf", "propertyIsEnumerable", "__proto__"}

\* AbbrToAccountType[name]: own key, inherited name, or undefined.
AbbrLookup(name) ==
  IF name \in DOMAIN AbbrToAccountType THEN AbbrToAccountType[name]
  ELSE IF name \in ObjectPrototypeKeys THEN [inherited |-> name]
  ELSE Undefined

(***************************************************************************)
(* Class strings, held as sequences of pieces: a piece is a white space    *)
(* character or a run of other characters that no shorter piece splits.    *)
(***************************************************************************)
CssPieces == {"cco", "liv_a", "pea", "vie", "compte", "constructor", " ", "\t"}

CssStrings == UNION {[1..n -> CssPieces] : n \in 0..MaxCssLen}

\* The text of a run of pieces.
RECURSIVE Text(_)
Text(pieces) == IF pieces = <<>> THEN "" ELSE Head(pieces) \o Text(Tail(pieces))

\* String.prototype.split(separator)[0] for a one-character separator: what
\* comes before its first occurrence, the whole string when there is none.
RECURSIVE splitFirst(_, _)
splitFirst(str, separator) ==
  IF str = <<>> \/ Head(str) = separator
    THEN <<>>
    ELSE <<Head(str)>> \o splitFirst(Tail(str), separator)

(***************************************************************************)
(* helpers.js:107-112  getAccountTypeFromCSS                               *)
(***************************************************************************)
getAccountTypeFromCSS(cssClasses) ==
  LET cssClass0 == Text(splitFirst(cssClasses, " "))
      found == AbbrLookup(cssClass0)
  IN IF Truthy(found) THEN found ELSE AccountType.UNKNOWN

getAccountTypeFromCSSCall ==
  /\ cssCall = NoCall
  /\ \E cssClasses \in CssStrings :
       cssCall' = [fn |-> "getAccountTypeFromCSS", cssClasses |-> cssClasses,
                   outcome |-> Return(getAccountTypeFromCSS(cssClasses))]
  /\ UNCHANGED <<defaultMedataOperation, call, merge, amountCall, errCall, logged>>

DiscardAccountType ==
  /\ cssCall # NoCall
  /\ cssCall' = NoCall
  /\ UNCHANGED <<defaultMedataOperation, call, merge, amountCall, errCall, logged>>

(***************************************************************************)
(* Errors handed to handleRequestErrors: the three classes of              *)
(* request-promise/errors and two others, each made by the caller.         *)
(***************************************************************************)
ErrorClasses == {"RequestError", "StatusCodeError", "TransformError", "Error", "TypeError"}

ErrorMessages == {"ECONNREFUSED", "503", "VENDOR_DOWN"}

Errors == [class : ErrorClasses, message : ErrorMessages, madeBy : {"caller"}]

\* helpers.js:151  new Error(errors.VENDOR_DOWN)
VendorDownError == [class |-> "Error", message |-> "VENDOR_DOWN", madeBy |-> "handleRequestErrors"]

Reject(e) == [how |-> "reject", error |-> e]

\* helpers.js:146-149  the instanceof tests; the classes of
\* request-promise/errors derive from Error, none from another.
IsRequestErrorOnly(err) == err.class = "RequestError"

IsTransportError(err) == err.class = "RequestError" \/ err.class = "StatusCodeError"

(***************************************************************************)
(* helpers.js:145-155  handleRequestErrors: the outcome and what it logs.  *)
(***************************************************************************)
handleRequestErrors(err) ==
  IF IsTransportError(err)
    THEN [outcome |-> Throw(VendorDownError), log |-> <<err>>]
    ELSE [outcome |-> Reject(err), log |-> <<>>]

handleRequestErrorsCall ==
  /\ errCall = NoCall
  /\ Len(logged) < MaxLog
  /\ \E err \in Errors :
       LET r == handleRequestErrors(err)
       IN /\ errCall' = [fn |-> "handleRequestErrors", err |-> err, outcome |-> r.outcome]
          /\ logged' = logged \o r.log
  /\ UNCHANGED <<defaultMedataOperation, call, merge, amountCall, cssCall>>

DiscardError ==
  /\ errCall # NoCall
  /\ errCall' = NoCall
  /\ UNCHANGED <<defaultMedataOperation, call, merge, amountCall, cssCall, logged>>

Init ==
  /\ defaultMedataOperation = InitialMetadata
  /\ call = NoCall
  /\ merge = NoCall
  /\ amountCall = NoCall
  /\ cssCall = NoCall
  /\ errCall = NoCall
  /\ logged = <<>>

Next ==
  \/ findMetadataForCreditOperation
  \/ findMetadataForDebitOperation
  \/ DiscardMetadata

Spec == Init /\ [][Next]_vars

NextMerge == readSpecificMetaDataCall \/ DiscardMerge

SpecMerge == Init /\ [][NextMerge]_vars

NextAmount == normalizeAmountCall \/ DiscardAmount

SpecAmount == Init /\ [][NextAmount]_vars

NextAccountType == getAccountTypeFromCSSCall \/ DiscardAccountType

SpecAccountType == Init /\ [][NextAccountType]_vars

NextErrors == handleRequestErrorsCall \/ DiscardError

SpecErrors == Init /\ [][NextErrors]_vars

(***************************************************************************)
(* Properties of the classification (specification Spec).                  *)
(***************************************************************************)
Range(seq) == {seq[j] : j \in 1..Len(seq)}

UpperWords(words) == [j \in 1..Len(words) |-> toUpperCase(words[j])]

\* The accumulator `metadata` after the metadata of the nodes of `nodes` was
\* read into it, in order.
RECURSIVE Accumulated(_, _, _)
Accumulated(metadata, nodes, typeOperation) ==
  IF nodes = <<>>
    THEN metadata
    ELSE Accumulated(_readSpecificMetaData(Head(nodes), typeOperation, metadata),
                     Tail(nodes), typeOperation)

\* The node of classification.json at a path of keys.
RECURSIVE NodeIn(_, _)
NodeIn(tree, path) ==
  IF path = <<>> THEN tree ELSE NodeIn(Get(tree, Head(path)), Tail(path))

\* The nodes along a path of keys, from the root node on.
NodesOf(path) == [j \in 1..Len(path) |-> NodeIn(classification, SubSeq(path, 1, j))]

\* path is the path of nodes that words names: its first token, then the
\* tokens from the 0-based index start on.
IsPath(path, words, start) ==
  /\ path # <<>>
  /\ path[1] = toUpperCase(words[1])
  /\ \A j \in 2..Len(path) :
       /\ start + j - 1 <= Len(words)
       /\ path[j] = toUpperCase(words[start + j - 1])
  /\ \A j \in 1..Len(path) : Truthy(NodeIn(classification, SubSeq(path, 1, j)))

\* C1: when the first token is a root key and every token from the start
\* index on matches a child, the call returns the accumulated metadata
\* record, never undefined.
C1_ExhaustedReturnsMetadata ==
  (call # NoCall /\ call.end = "exhausted")
    => /\ call.result # Undefined
       /\ call.result = Accumulated(call.entry, NodesOf(call.path), call.typeOperation)

\* C2: whatever calls were made before, a call returns what the same call
\* returns when it is the first call of a fresh process.
C2_SameAsFreshCall ==
  call # NoCall
    => call.result = _classification(call.words, InitialMetadata, call.typeOperation).result

\* The values of field key that the default metadata, the own fields of the
\* nodes and their sub-records for typeOperation provide.
Provided(nodes, typeOperation, key) ==
  {InitialMetadata[key]}
    \cup {n[key] : n \in {m \in Range(nodes) : key \in DOMAIN m}}
    \cup {n[typeOperation][key] :
            n \in {m \in Range(nodes) :
                     typeOperation \in DOMAIN m /\ key \in DOMAIN m[typeOperation]}}

OtherPolarity(typeOperation) == IF typeOperation = "_credit" THEN "_debit" ELSE "_credit"

\* The values of field key that only the sub-records of the other polarity
\* provide on the walked path.
OnlyFromOther(nodes, typeOperation, key) ==
  {n[OtherPolarity(typeOperation)][key] :
     n \in {m \in Range(nodes) :
              /\ OtherPolarity(typeOperation) \in DOMAIN m
              /\ key \in DOMAIN m[OtherPolarity(typeOperation)]}}
    \ Provided(nodes, typeOperation, key)

\* C3: at the last matched node the sub-record of the call's polarity wins
\* over the node's own fields, and no returned value comes only from a
\* sub-record of the other polarity on the walked path, whatever calls were
\* made before.
C3_PolaritySeparation ==
  (call # NoCall /\ call.result # Undefined /\ call.path # <<>>)
    => \A key \in MetadataKeys :
         LET last == NodeIn(classification, call.path)
             sub == Get(last, call.typeOperation)
         IN /\ (Truthy(sub) /\ Truthy(Get(sub, key))) => call.result[key] = sub[key]
            /\ call.result[key] \notin OnlyFromOther(NodesOf(call.path), call.typeOperation, key)

\* C4: when a token has no child in the current node the walk stops at that
\* token: the lookups made are those of the matched children and of the
\* missing token, one per token from the start index on, and the record
\* returned is the accumulator the call was handed with the metadata of the
\* matched nodes read into it.
C4_PartialMatch ==
  (call # NoCall /\ call.end = "miss")
    => LET start == IF call.words[1] = "CARTE" THEN 2 ELSE 1
           k == Len(call.path)
       IN /\ IsPath(call.path, call.words, start)
          /\ Len(call.lookups) = k
          /\ \A j \in 1..k : /\ call.lookups[j].index = start + j - 1
                             /\ call.lookups[j].parent = SubSeq(call.path, 1, j)
          /\ start + k - 1 < Len(call.words)
          /\ ~Truthy(Get(NodeIn(classification, call.path), toUpperCase(call.words[start + k])))
          /\ call.result # Undefined
          /\ DOMAIN call.result = MetadataKeys
          /\ call.result = Accumulated(call.entry, NodesOf(call.path), call.typeOperation)

\* A walk that read the metadata of the root, missed the next token and left
\* a token after it unread.
C4_Witness ==
  /\ call # NoCall
  /\ call.end = "miss"
  /\ call.lookups[Len(call.lookups)].index + 1 < Len(call.words)
  /\ call.result # call.entry

\* C5: with "CARTE" as first token the first child lookup is that of the
\* token at index 2, in the CARTE root node, and the token at index 1 is
\* never looked up; with any other first token that is a root key the first
\* child lookup is that of the token at index 1.
C5_CarteSkip ==
  (call # NoCall /\ call.end # "noroot")
    => LET start == IF call.words[1] = "CARTE" THEN 2 ELSE 1
       IN /\ Len(call.words) > start
               => /\ call.lookups # <<>>
                  /\ call.lookups[1].index = start
                  /\ call.lookups[1].key = toUpperCase(call.words[start + 1])
                  /\ call.lookups[1].parent = <<toUpperCase(call.words[1])>>
          /\ Len(call.words) <= start => call.lookups = <<>>
          /\ call.words[1] = "CARTE" => \A j \in 1..Len(call.lookups) : call.lookups[j].index # 1

\* ["CARTE", "1234", "RESTAURANT"]: RESTAURANT is looked up in the CARTE node.
C5_Witness ==
  /\ call # NoCall
  /\ call.words[1] = "CARTE"
  /\ Len(call.words) >= 3
  /\ call.words[2] = "1234"
  /\ call.lookups # <<>>
  /\ call.lookups[1].key = "RESTAURANT"
  /\ call.path = <<"CARTE", "RESTAURANT">>

\* C9: a call on tokens and the call on the uppercased tokens, from the same
\* state, visit the same nodes, start at the same index and return the same
\* metadata.
C9_CaseInsensitive ==
  call # NoCall
    => LET upper == _classification(UpperWords(call.words), call.entry, call.typeOperation)
       IN /\ upper.path = call.path
          /\ upper.lookups = call.lookups
          /\ upper.result = call.result

(***************************************************************************)
(* Properties of _readSpecificMetaData (specification SpecMerge).          *)
(***************************************************************************)
\* C10: every field the node or its sub-record for the polarity defines
\* overwrites the accumulated value, 0 and '' included, the sub-record
\* winning over the node; every other field keeps its accumulated value;
\* the metadata has the three fields and no other.
C10_FieldMerge ==
  merge # NoCall
    => /\ DOMAIN merge.after = MetadataKeys
       /\ \A key \in MetadataKeys :
            LET sub == Get(merge.node, merge.typeOperation)
            IN merge.after[key] =
                 IF sub # Undefined /\ key \in DOMAIN sub THEN sub[key]
                 ELSE IF key \in DOMAIN merge.node THEN merge.node[key]
                 ELSE merge.before[key]

(***************************************************************************)
(* Properties of normalizeAmount (specification SpecAmount).               *)
(***************************************************************************)
\* C8: normalizeAmount never throws; it returns what the number parser makes
\* of the string without its white space and with its decimal comma turned
\* into a period, NaN when that is no number.
C8_NormalizeAmountNeverThrows ==
  amountCall # NoCall
    => /\ amountCall.outcome.how = "return"
       /\ amountCall.outcome.value =
            parseFloat(replace(RemoveWhiteSpace(amountCall.amount), ",", "."))

(***************************************************************************)
(* Properties of getAccountTypeFromCSS (specification SpecAccountType).    *)
(***************************************************************************)
\* What comes before the first white space character of a class string.
RECURSIVE FirstTokenOnWhiteSpace(_)
FirstTokenOnWhiteSpace(str) ==
  IF str = <<>> \/ IsWhiteSpace(Head(str))
    THEN <<>>
    ELSE <<Head(str)>> \o FirstTokenOnWhiteSpace(Tail(str))

\* C7: getAccountTypeFromCSS returns the descriptor the abbreviation map
\* gives for the first token of the string split on white space, Unknown
\* when the map has no such entry: always one of the six descriptors, never
\* an error.
C7_AccountTypeOfFirstToken ==
  cssCall # NoCall
    => LET token == Text(FirstTokenOnWhiteSpace(cssCall.cssClasses))
       IN /\ cssCall.outcome.how = "return"
          /\ cssCall.outcome.value \in {AccountType[k] : k \in DOMAIN AccountType}
          /\ cssCall.outcome.value =
               IF token \in DOMAIN AbbrToAccountType
                 THEN AbbrToAccountType[token]
                 ELSE AccountType.UNKNOWN

(***************************************************************************)
(* Properties of handleRequestErrors (specification SpecErrors).           *)
(***************************************************************************)
\* C6: handleRequestErrors never completes successfully; it throws a new
\* Error(VENDOR_DOWN) exactly when the error is a RequestError or a
\* StatusCodeError, and otherwise rejects with the error it was given.
C6_VendorDownIffTransport ==
  errCall # NoCall
    => LET transport == errCall.err.class \in {"RequestError", "StatusCodeError"}
       IN /\ errCall.outcome.how \in {"throw", "reject"}
          /\ (errCall.outcome = Throw(VendorDownError)) <=> transport
          /\ ~transport => errCall.outcome = Reject(errCall.err)
          /\ errCall.outcome.error # errCall.err => transport

\* A StatusCodeError was turned into VENDOR_DOWN and logged.
C6_Witness ==
  /\ errCall # NoCall
  /\ errCall.err.class = "StatusCodeError"
  /\ errCall.outcome = Throw(VendorDownError)
  /\ logged # <<>>
  /\ logged[Len(logged)] = errCall.err

====
